---- MODULE Spec2Model ----
(***************************************************************************)
(* Model of the generic repository / service layer of Category-LLD:       *)
(*   src/base/repository/base_repo.py   BaseRepository                    *)
(*   src/base/services/base_service.py  BaseService                       *)
(*   src/category/service/category.py   CategoryService                   *)
(* The store is the "categories" table; every request works through a     *)
(* SQLAlchemy session (src/core/database.py).                              *)
(***************************************************************************)
EXTENDS Integers, Sequences, FiniteSets, TLC

(***************************************************************************)
(* Bounds of the model.                                                    *)
(***************************************************************************)
\* number of distinct values the random part of an identifier is drawn from
NumKeys == 2
\* largest batch handed to create, and cap on the instances a session holds
MaxBatch == 2
\* largest skip / limit handed to the repository's list
MaxSkip == 1
MaxLimit == 2

(***************************************************************************)
(* Strings are sequences of one-character strings, so that formatting,     *)
(* pattern matching and ordering are computed, not assumed.                *)
(***************************************************************************)
Alphabet == <<"%", "0", "1", "2", "3", "4", "5", "6", "7", "8", "9",
              "A", "B", "C", "D", "E", "F", "T", "_",
              "a", "b", "d", "f", "o", "r", "x">>

Ord(c) == CHOOSE i \in 1..Len(Alphabet) : Alphabet[i] = c

RECURSIVE StrLt(_, _)
StrLt(a, b) ==
  IF b = <<>> THEN FALSE
  ELSE IF a = <<>> THEN TRUE
  ELSE IF Head(a) = Head(b) THEN StrLt(Tail(a), Tail(b))
  ELSE Ord(Head(a)) < Ord(Head(b))

(***************************************************************************)
(* Values: one record shape for every Python / SQL value the model uses.   *)
(*   t = "null" (None / NULL), "str", "bool", "list"                       *)
(***************************************************************************)
NullV    == [t |-> "null", s |-> <<>>, b |-> FALSE, l |-> <<>>]
StrV(x)  == [t |-> "str",  s |-> x,    b |-> FALSE, l |-> <<>>]
BoolV(x) == [t |-> "bool", s |-> <<>>, b |-> x,     l |-> <<>>]
ListV(x) == [t |-> "list", s |-> <<>>, b |-> FALSE, l |-> x]

IsNull(v) == v.t = "null"

\* Python truthiness of a value ("if getattr(instance, 'id', None)", "if not instance")
Truthy(v) ==
  CASE v.t = "null" -> FALSE
    [] v.t = "str"  -> v.s # <<>>
    [] v.t = "bool" -> v.b
    [] v.t = "list" -> v.l # <<>>

\* SQL "<" on two non-null values of one type
ValLt(a, b) ==
  CASE a.t = "str" /\ b.t = "str"   -> StrLt(a.s, b.s)
    [] a.t = "bool" /\ b.t = "bool" -> (~a.b) /\ b.b
    [] OTHER -> FALSE

ValLe(a, b) == a = b \/ ValLt(a, b)

Foo == <<"f", "o", "o">>
Bar == <<"b", "a", "r">>
Desc == <<"d">>

(***************************************************************************)
(* Identifier generator.                                                   *)
(***************************************************************************)
HexDigits == <<"0", "1", "2", "3", "4", "5", "6", "7", "8", "9",
               "A", "B", "C", "D", "E", "F">>

RECURSIVE HexOf(_, _)
\* the n lowest hex digits of k, most significant first, upper case
HexOf(k, n) ==
  IF n = 0 THEN <<>>
  ELSE HexOf(k \div 16, n - 1) \o <<HexDigits[(k % 16) + 1]>>

\* uuid.uuid4().hex[:8].upper() for a random value whose leading part is k
generate_primary_key(prefix, k) == prefix \o <<"_">> \o HexOf(k, 8)

\* TABLE_TO_PK_PREFIX[Category]
CategoryPrefix == <<"C", "A", "T">>

\* the values the random draw of one identifier can take
Keys == 0..(NumKeys - 1)
Ids == {generate_primary_key(CategoryPrefix, k) : k \in Keys}

(***************************************************************************)
(* The entity type: Category.                                              *)
(***************************************************************************)
Columns == {"id", "name", "description", "is_deleted"}

\* getattr(model, field, None) is not None / hasattr(instance, key)
HasAttr(f) == f \in Columns

\* an instance / a row: a value for every column
Instance(id, name, description, is_deleted) ==
  [id |-> id, name |-> name, description |-> description, is_deleted |-> is_deleted]

\* column default applied by the store on insert: is_deleted is false unless given
InsertDefaults(inst) ==
  [inst EXCEPT !.is_deleted = IF IsNull(inst.is_deleted) THEN BoolV(FALSE) ELSE inst.is_deleted]

(***************************************************************************)
(* Filter interpreter (BaseRepository.apply_filters).                      *)
(* A filters mapping is a sequence of entries in the mapping's iteration   *)
(* order; a condition is a bare value or a dict, itself a sequence of      *)
(* (key, value) items.                                                     *)
(***************************************************************************)
Scalar(v)   == [kind |-> "scalar", val |-> v, items |-> <<>>]
Dict(items) == [kind |-> "dict", val |-> NullV, items |-> items]
Item(k, v)  == [op |-> k, val |-> v]
Entry(f, c) == [field |-> f, cond |-> c]

RECURSIVE LikeMatch(_, _)
\* SQL LIKE: "%" matches any run of characters, "_" any one character
LikeMatch(s, p) ==
  IF p = <<>> THEN s = <<>>
  ELSE IF Head(p) = "%" THEN
         LikeMatch(s, Tail(p)) \/ (s # <<>> /\ LikeMatch(Tail(s), p))
  ELSE IF Head(p) = "_" THEN s # <<>> /\ LikeMatch(Tail(s), Tail(p))
  ELSE s # <<>> /\ Head(s) = Head(p) /\ LikeMatch(Tail(s), Tail(p))

SeqRange(q) == {q[i] : i \in 1..Len(q)}

\* column == val : IS NULL for None, SQL equality (never true on NULL) otherwise
ColEq(c, v) == IF IsNull(v) THEN IsNull(c) ELSE (~IsNull(c)) /\ c = v

\* the operators apply_filters recognizes, and the between guard
OpRecognized(op, v) ==
  \/ op \in {"eq", "in", "nin", "gt", "gte", "lt", "lte", "like"}
  \/ op = "between" /\ v.t = "list" /\ Len(v.l) = 2

\* the predicate one recognized (op, val) item puts on a column value
OpHolds(op, c, v) ==
  CASE op = "eq"      -> ColEq(c, v)
    [] op = "in"      -> (~IsNull(c)) /\ c \in SeqRange(v.l)
    [] op = "nin"     -> v.l = <<>> \/ ((~IsNull(c)) /\ c \notin SeqRange(v.l))
    [] op = "gt"      -> (~IsNull(c)) /\ ValLt(v, c)
    [] op = "gte"     -> (~IsNull(c)) /\ ValLe(v, c)
    [] op = "lt"      -> (~IsNull(c)) /\ ValLt(c, v)
    [] op = "lte"     -> (~IsNull(c)) /\ ValLe(c, v)
    [] op = "like"    -> (~IsNull(c)) /\ c.t = "str" /\ LikeMatch(c.s, v.s)
    [] op = "between" -> (~IsNull(c)) /\ ValLe(v.l[1], c) /\ ValLe(c, v.l[2])
    [] OTHER          -> TRUE

RECURSIVE ItemsHold(_, _)
\* "for op, val in condition.items()": every recognized item is AND-ed, others skipped
ItemsHold(items, c) ==
  IF items = <<>> THEN TRUE
  ELSE /\ (OpRecognized(Head(items).op, Head(items).val)
             => OpHolds(Head(items).op, c, Head(items).val))
       /\ ItemsHold(Tail(items), c)

RECURSIVE apply_filters_Strict(_, _)
\* a filter on a field the entity lacks selects no row
apply_filters_Strict(row, filters) ==
  IF filters = <<>> THEN TRUE
  ELSE LET e == Head(filters) IN
       /\ IF ~HasAttr(e.field) THEN FALSE
          ELSE IF e.cond.kind = "dict" THEN ItemsHold(e.cond.items, row[e.field])
          ELSE ColEq(row[e.field], e.cond.val)
       /\ apply_filters_Strict(row, Tail(filters))

RECURSIVE apply_filters(_, _)
\* does `row` pass the query refined by `filters`
apply_filters(row, filters) ==
  IF filters = <<>> THEN TRUE
  ELSE LET e == Head(filters) IN
       /\ IF ~HasAttr(e.field) THEN TRUE
          ELSE IF e.cond.kind = "dict" THEN ItemsHold(e.cond.items, row[e.field])
          ELSE ColEq(row[e.field], e.cond.val)
       /\ apply_filters(row, Tail(filters))

HasKey(filters, f) == \E i \in 1..Len(filters) : filters[i].field = f


(***************************************************************************)
(* Sort interpreter (BaseRepository.apply_sorting).                        *)
(* A sort spec is a dict with an optional "field" and an optional "order". *)
(***************************************************************************)
SortSpec(field, has_order, order) ==
  [field |-> field, has_order |-> has_order, order |-> order]

\* spec.get("order", "asc")
OrderOf(spec) == IF spec.has_order THEN spec.order ELSE "asc"

RECURSIVE apply_sorting_LastFirst(_)
\* the ORDER BY clauses with the last spec taking precedence
apply_sorting_LastFirst(sort_specs) ==
  IF sort_specs = <<>> THEN <<>>
  ELSE LET spec == Head(sort_specs) IN
       apply_sorting_LastFirst(Tail(sort_specs))
       \o (IF spec.field # "" /\ OrderOf(spec) \in {"asc", "desc"} /\ HasAttr(spec.field)
             THEN <<[field |-> spec.field, desc |-> OrderOf(spec) = "desc"]>>
             ELSE <<>>)

RECURSIVE apply_sorting(_)
\* the ORDER BY clauses, in the order they are appended
apply_sorting(sort_specs) ==
  IF sort_specs = <<>> THEN <<>>
  ELSE LET spec == Head(sort_specs) IN
       (IF spec.field # "" /\ OrderOf(spec) \in {"asc", "desc"} /\ HasAttr(spec.field)
          THEN <<[field |-> spec.field, desc |-> OrderOf(spec) = "desc"]>>
          ELSE <<>>)
       \o apply_sorting(Tail(sort_specs))

\* ascending order of the store on one column: NULL sorts after every value
AscBefore(a, b) == (~IsNull(a)) /\ (IsNull(b) \/ ValLt(a, b))

ClauseBefore(c, x, y) ==
  IF c.desc THEN AscBefore(y[c.field], x[c.field]) ELSE AscBefore(x[c.field], y[c.field])

RECURSIVE RowBefore(_, _, _)
\* x must come before y under the ORDER BY clauses (first clause decides first)
RowBefore(clauses, x, y) ==
  IF clauses = <<>> THEN FALSE
  ELSE \/ ClauseBefore(Head(clauses), x, y)
       \/ /\ ~ClauseBefore(Head(clauses), y, x)
          /\ RowBefore(Tail(clauses), x, y)

\* every sequence in which the store may return the set `rows` under `clauses`:
\* rows the clauses do not separate come in an order the store chooses
Orderings(rows, clauses) ==
  {q \in [1..Cardinality(rows) -> rows] :
     /\ \A i, j \in 1..Cardinality(rows) : i # j => q[i] # q[j]
     /\ \A i, j \in 1..Cardinality(rows) : i < j => ~RowBefore(clauses, q[j], q[i])}

\* query.offset(skip).limit(limit).all()
Page(q, skip, limit) ==
  SubSeq(q, skip + 1, IF skip + limit < Len(q) THEN skip + limit ELSE Len(q))

(***************************************************************************)
(* Paged query executor (BaseRepository.list), as pure steps.              *)
(***************************************************************************)
ListParams(filters, sort_by, skip, limit, include_deleted) ==
  [filters |-> filters, sort_by |-> sort_by, skip |-> skip, limit |-> limit,
   include_deleted |-> include_deleted]

\* the soft-delete block left out
SoftDeleteFilters_NoDefault(filters, include_deleted) == filters

\* the filters mapping after the soft-delete block: the entry is written into
\* the mapping the caller handed in
SoftDeleteFilters(filters, include_deleted) ==
  IF (~include_deleted) /\ HasAttr("is_deleted") /\ ~HasKey(filters, "is_deleted")
    THEN filters \o <<Entry("is_deleted", Dict(<<Item("eq", BoolV(FALSE))>>))>>
    ELSE filters

\* the rows of `st` the filtered query selects
Matching(st, filters) == {r \in st : apply_filters(r, filters)}

\* the count taken before the filters are applied
CountQuery_Unfiltered(st, filters) == Cardinality(st)

\* total_count = query.count(), taken before sorting and pagination
CountQuery(st, filters) == Cardinality(Matching(st, filters))

\* the pages the fetch query may return from store `st`
FetchQuery(st, filters, sort_by, skip, limit) ==
  {Page(q, skip, limit) : q \in Orderings(Matching(st, filters), apply_sorting(sort_by))}

(***************************************************************************)
(* State.                                                                  *)
(***************************************************************************)
Sessions == {"s1", "s2"}

VARIABLES
  store,     \* the rows of the categories table (committed)
  pending,   \* per session: instances added with db.add and not yet committed
  listing,   \* the list call that has run its count query and not yet its fetch
  ret        \* the outcome of the last call, until the caller takes it

vars == <<store, pending, listing, ret>>

NullRow == Instance(NullV, NullV, NullV, NullV)

NoParams == ListParams(<<>>, <<>>, 0, 0, FALSE)

NoListing == [active |-> FALSE, sess |-> "", p |-> NoParams, filters |-> <<>>, total |-> 0]

\* outcome record: one shape for every operation
NoRet ==
  [op |-> "none", sess |-> "", status |-> "ok",
   id |-> NullV, batch |-> <<>>, fields |-> <<>>, p |-> NoParams,
   page |-> 0, page_limit |-> 0,
   ids |-> <<>>, found |-> FALSE, row |-> NullRow,
   data |-> <<>>, total |-> 0, filters_after |-> <<>>,
   \* what the same call returned when it was made just before: "none", "true", "false"
   prior |-> "none"]

\* session s can start a call: the caller holds no untaken outcome and s is not
\* inside a list call
Ready(s) == ret.op = "none" /\ ~(listing.active /\ listing.sess = s)

StoreIds(st) == {r.id : r \in st}

\* self.db.get(model, id)
db_get(st, id) ==
  IF id \in StoreIds(st) THEN CHOOSE r \in st : r.id = id ELSE NullRow

\* db.commit(): the session's pending instances become rows
Flush(st, pend) == st \cup {InsertDefaults(pend[i]) : i \in 1..Len(pend)}

\* identifiers held by some row or by some instance a session has added
IdsInUse ==
  StoreIds(store) \cup UNION {{pending[s][i].id : i \in DOMAIN pending[s]} : s \in Sessions}

Init ==
  /\ store = {}
  /\ pending = [s \in Sessions |-> <<>>]
  /\ listing = NoListing
  /\ ret = NoRet


(***************************************************************************)
(* Mutation operations of BaseRepository, as functions of the store `st`   *)
(* and of the calling session's pending instances `pend`.                  *)
(* Each returns the new store, the new pending instances and the outcome.  *)
(***************************************************************************)
Outcome(st, pend, status, ids, found, row) ==
  [store |-> st, pend |-> pend, status |-> status, ids |-> ids, found |-> found,
   row |-> row]

\* index of the first instance of the batch that already carries an identifier,
\* or Len(batch) + 1 when there is none
FirstWithId(batch) ==
  IF \E i \in 1..Len(batch) : Truthy(batch[i].id)
    THEN CHOOSE i \in 1..Len(batch) :
           Truthy(batch[i].id) /\ \A j \in 1..(i - 1) : ~Truthy(batch[j].id)
    ELSE Len(batch) + 1

\* the instances the loop of create has handed to db.add, with their new identifiers;
\* keys[i] is the random draw for the i-th instance
Added(batch, keys) ==
  [i \in 1..(FirstWithId(batch) - 1) |->
     [batch[i] EXCEPT !.id = StrV(generate_primary_key(CategoryPrefix, keys[i]))]]

\* create returning the identifiers last to first
create_Reversed(st, pend, batch, keys) ==
  IF FirstWithId(batch) <= Len(batch)
    THEN Outcome(st, pend \o Added(batch, keys), "raised", <<>>, FALSE, NullRow)
    ELSE Outcome(Flush(st, pend \o Added(batch, keys)), <<>>, "ok",
                 [i \in 1..Len(batch) |-> Added(batch, keys)[Len(batch) + 1 - i].id],
                 FALSE, NullRow)

\* BaseRepository.create (a list, or a single instance as a list of one)
create(st, pend, batch, keys) ==
  IF FirstWithId(batch) <= Len(batch)
    THEN \* raise ValueError: what was added stays in the session, nothing is committed
         Outcome(st, pend \o Added(batch, keys), "raised", <<>>, FALSE, NullRow)
    ELSE Outcome(Flush(st, pend \o Added(batch, keys)), <<>>, "ok",
                 [i \in 1..Len(batch) |-> Added(batch, keys)[i].id], FALSE, NullRow)

\* the record rebuilt from the supplied fields alone: what is not supplied is lost
SetAttrs_Replace(inst, fields) ==
  [c \in Columns |->
     IF c = "id" THEN inst.id
     ELSE IF \E i \in 1..Len(fields) : fields[i].op = c
       THEN fields[CHOOSE i \in 1..Len(fields) : fields[i].op = c].val
       ELSE NullV]

RECURSIVE SetAttrs(_, _)
\* for key, value in fields.items(): if hasattr(instance, key): setattr(...)
SetAttrs(inst, fields) ==
  IF fields = <<>> THEN inst
  ELSE SetAttrs(IF HasAttr(Head(fields).op)
                  THEN [inst EXCEPT ![Head(fields).op] = Head(fields).val]
                  ELSE inst,
                Tail(fields))

\* BaseRepository.update_one_by_id
update_one_by_id(st, pend, id, fields) ==
  IF db_get(st, id) = NullRow
    THEN Outcome(st, pend, "ok", <<>>, FALSE, NullRow)
    ELSE LET new == SetAttrs(db_get(st, id), fields) IN
         Outcome(Flush((st \ {db_get(st, id)}) \cup {new}, pend), <<>>, "ok", <<>>,
                 TRUE, new)

\* BaseRepository.update
update(st, pend, id, update_data) ==
  IF db_get(st, id) = NullRow
    THEN Outcome(st, pend, "ok", <<>>, FALSE, NullRow)
    ELSE LET instance == SetAttrs(db_get(st, id), update_data) IN
         Outcome(Flush((st \ {db_get(st, id)}) \cup {instance}, pend), <<>>, "ok", <<>>,
                 TRUE, instance)

\* delete as a soft delete: the row is flagged and kept
delete_Soft(st, pend, id) ==
  IF db_get(st, id) # NullRow
    THEN Outcome(Flush((st \ {db_get(st, id)})
                         \cup {[db_get(st, id) EXCEPT !.is_deleted = BoolV(TRUE)]}, pend),
                 <<>>, "ok", <<>>, TRUE, NullRow)
    ELSE Outcome(st, pend, "ok", <<>>, FALSE, NullRow)

\* BaseRepository.delete
delete(st, pend, id) ==
  IF db_get(st, id) # NullRow
    THEN Outcome(Flush(st \ {db_get(st, id)}, pend), <<>>, "ok", <<>>, TRUE, NullRow)
    ELSE Outcome(st, pend, "ok", <<>>, FALSE, NullRow)

\* BaseRepository.get_by_id
get_by_id(st, pend, id) ==
  Outcome(st, pend, "ok", <<>>, db_get(st, id) # NullRow, db_get(st, id))

RECURSIVE GetOneMatches(_, _)
\* the equality filters of get_one: attributes the model lacks are skipped
GetOneMatches(row, filters) ==
  IF filters = <<>> THEN TRUE
  ELSE /\ (HasAttr(Head(filters).op) => ColEq(row[Head(filters).op], Head(filters).val))
       /\ GetOneMatches(row, Tail(filters))

\* BaseRepository.get_one: query.first() returns `pick`, any one of the matching rows
get_one(st, pend, filters, pick) ==
  Outcome(st, pend, "ok", <<>>, pick # NullRow, pick)

GetOnePicks(st, filters) ==
  IF \E r \in st : GetOneMatches(r, filters)
    THEN {r \in st : GetOneMatches(r, filters)}
    ELSE {NullRow}


(***************************************************************************)
(* Generic resource service (BaseService) and CategoryService.             *)
(***************************************************************************)
\* a request object of the validation layer: the fields the caller set
Request(name, description) == [name |-> name, description |-> description]

\* model_class(**pydantic_obj.model_dump(exclude_none=True))
convert_single_to_sqlalchemy(obj) == Instance(NullV, obj.name, obj.description, NullV)

\* "except Exception: raise HTTPException(500)" around a repository outcome
Wrap500(st, pend, r) ==
  IF r.status = "raised" THEN Outcome(st, pend, "http500", <<>>, FALSE, NullRow) ELSE r

\* BaseService.create: repository.create is called with a second argument it does
\* not take; the TypeError is re-signalled as an internal failure
Service_create(st, pend, objs, keys) ==
  Outcome(st, pend, "http500", <<>>, FALSE, NullRow)

\* BaseService.create_one
Service_create_one(st, pend, obj, keys) ==
  LET r == create(st, pend, <<convert_single_to_sqlalchemy(obj)>>, keys) IN
  IF r.status = "raised"
    THEN Outcome(r.store, r.pend, "http500", <<>>, FALSE, NullRow)
    ELSE [r EXCEPT !.ids = <<r.ids[1]>>]

\* BaseService.update_by_id: the fields (given as the mapping of the fields the request
\* object sets) are converted to an entity, on which update_one_by_id calls .items()
\* once it has found the record
Service_update_by_id(st, pend, id, obj) ==
  IF db_get(st, id) = NullRow
    THEN Outcome(st, pend, "ok", <<>>, FALSE, NullRow)
    ELSE Outcome(st, pend, "http500", <<>>, FALSE, NullRow)

\* BaseService.delete_by_id: calls repository.delete_by_id, which BaseRepository
\* does not define
Service_delete_by_id(st, pend, id) ==
  Outcome(st, pend, "http500", <<>>, FALSE, NullRow)

\* BaseService.get_by_id
Service_get_by_id(st, pend, id) == Wrap500(st, pend, get_by_id(st, pend, id))

\* BaseService.get_one
Service_get_one(st, pend, filters, pick) ==
  Wrap500(st, pend, get_one(st, pend, filters, pick))

\* CategoryService.update_category; `fields` is request.model_dump(exclude_unset=True)
update_category(st, pend, id, fields) ==
  IF ~Service_get_by_id(st, pend, id).found
    THEN Outcome(st, pend, "raised", <<>>, FALSE, NullRow)
    ELSE update_one_by_id(st, pend, id, fields)

\* CategoryService.delete_category
delete_category(st, pend, id) == Service_delete_by_id(st, pend, id)

\* raise HTTPException(status_code = code)
HTTPException(st, pend, code) == Outcome(st, pend, code, <<>>, FALSE, NullRow)

\* the "except Exception" of a route: whatever was raised inside its try block, the
\* HTTPException the route raised itself included, leaves as HTTPException(500)
RouteExcept(r) ==
  IF r.status # "ok" THEN HTTPException(r.store, r.pend, "http500") ELSE r

\* route GET /{category_id}
Route_get_category(st, pend, id) ==
  LET result == Service_get_by_id(st, pend, id) IN
  RouteExcept(IF result.status = "ok" /\ ~result.found
                THEN HTTPException(result.store, result.pend, "http404")
                ELSE result)

\* route DELETE /{category_id}
Route_delete_category(st, pend, id) ==
  LET deleted == delete_category(st, pend, id) IN
  RouteExcept(IF deleted.status = "ok" /\ ~deleted.found
                THEN HTTPException(deleted.store, deleted.pend, "http404")
                ELSE deleted)

\* BaseService.validate_pagination
validate_pagination(page, limit) ==
  [page  |-> IF page < 1 THEN 1 ELSE page,
   limit |-> IF limit < 1 THEN 1 ELSE IF limit > 1000 THEN 1000 ELSE limit]

\* Pagination.offset
offset(page, limit) == (page - 1) * limit

\* a field of a typed filters object: unset, a FilterExpression or a DateRange
NoFilter(f)          == [field |-> f, kind |-> "none", op |-> NullV, value |-> NullV]
FilterExpression(f, op, value) == [field |-> f, kind |-> "expr", op |-> op, value |-> value]
DateRange(f, from_, to) ==
  [field |-> f, kind |-> "range", op |-> NullV, value |-> ListV(<<from_, to>>)]

Between == <<"b", "e", "t", "w", "e", "e", "n">>

RECURSIVE process_filters(_)
\* BaseService.process_filters over the declared fields of the filters object
process_filters(filters) ==
  IF filters = <<>> THEN <<>>
  ELSE LET fv == Head(filters) IN
       (CASE fv.kind = "expr" ->
               <<Entry(fv.field, Dict(<<Item("op", fv.op), Item("value", fv.value)>>))>>
          [] fv.kind = "range" ->
               <<Entry(fv.field,
                       Dict(<<Item("op", StrV(Between)), Item("value", fv.value)>>))>>
          [] OTHER -> <<>>)
       \o process_filters(Tail(filters))

\* BaseService.process_sort_by
process_sort_by(sort_by) ==
  [i \in 1..Len(sort_by) |-> SortSpec(sort_by[i].field, TRUE, sort_by[i].order)]

\* the arguments BaseService.list hands to BaseRepository.list
ServiceListParams(page, limit, filters, sort_by, include_deleted) ==
  ListParams(process_filters(filters), process_sort_by(sort_by),
             offset(page, limit), validate_pagination(page, limit).limit,
             include_deleted)


(***************************************************************************)
(* Inputs of the calls.                                                    *)
(***************************************************************************)
Missing == <<"x">>

\* identifiers a caller may name: every identifier that can exist, and one that cannot
TargetIds == {StrV(i) : i \in Ids} \cup {StrV(Missing)}

\* entities handed to create: without an identifier, or already carrying one
InputInstances ==
  {Instance(NullV, StrV(Foo), NullV, NullV),
   Instance(NullV, StrV(Bar), StrV(Desc), NullV),
   Instance(StrV(generate_primary_key(CategoryPrefix, 0)), StrV(Foo), NullV, NullV)}

Batches == UNION {[1..n -> InputInstances] : n \in 1..MaxBatch}

\* the random draws of one create call: pairwise distinct, and distinct from every
\* identifier in use (the generator relies on the size of the key space)
FreshKeys(n) ==
  {keys \in [1..n -> Keys] :
     /\ \A i, j \in 1..n : i # j => keys[i] # keys[j]
     /\ \A i \in 1..n : StrV(generate_primary_key(CategoryPrefix, keys[i])) \notin IdsInUse}

\* field mappings handed to update
UpdateInputs ==
  {<<Item("name", StrV(Bar))>>,
   <<Item("is_deleted", BoolV(TRUE))>>,
   <<Item("description", StrV(Desc)), Item("bogus", StrV(Foo))>>,
   <<Item("name", StrV(Foo)), Item("is_deleted", BoolV(FALSE))>>}

\* filters mappings handed to the repository's list
RepoFilters ==
  {<<>>,
   <<Entry("name", Dict(<<Item("like", StrV(<<"%", "o", "o", "%">>))>>))>>,
   <<Entry("is_deleted", Dict(<<Item("eq", BoolV(TRUE))>>))>>,
   <<Entry("name", Scalar(StrV(Bar))), Entry("bogus", Scalar(StrV(Foo)))>>,
   <<Entry("description", Scalar(NullV))>>}

SortInputs ==
  {<<>>, <<SortSpec("name", TRUE, "desc")>>, <<SortSpec("name", FALSE, "")>>}

ListInputs ==
  {ListParams(f, o, k, l, d) :
     f \in RepoFilters, o \in SortInputs, k \in 0..MaxSkip, l \in 0..MaxLimit,
     d \in BOOLEAN}

\* equality mappings handed to get_one
GetOneInputs ==
  {<<Item("name", StrV(Foo))>>, <<Item("bogus", StrV(Foo)), Item("is_deleted", BoolV(FALSE))>>}

\* request objects of the Category resource
CreateRequests == {Request(StrV(Foo), NullV), Request(StrV(Bar), StrV(Desc))}
UpdateRequests == {<<Item("name", StrV(Bar))>>, <<Item("description", StrV(Desc))>>}

\* typed filters objects handed to the service's list (CategoryFilters)
ServiceFilters ==
  {<<NoFilter("name")>>,
   <<FilterExpression("name", StrV(<<"e", "q">>), StrV(Foo))>>,
   <<FilterExpression("name", StrV(<<"i", "n">>), ListV(<<StrV(Bar)>>))>>}

\* pagination handed to the service's list, in and out of the valid range
PageInputs == {0, 1, 2}
LimitInputs == {0, 1, 2, 1000, 1001}

(***************************************************************************)
(* Actions: one per call.                                                  *)
(***************************************************************************)
\* a mutation or lookup by session s ends with outcome r
FinishAfter(s, op, r, id, batch, fields, prior) ==
  /\ store' = r.store
  /\ pending' = [pending EXCEPT ![s] = r.pend]
  /\ ret' = [NoRet EXCEPT !.op = op, !.sess = s, !.status = r.status, !.ids = r.ids,
                          !.found = r.found, !.row = r.row,
                          !.id = id, !.batch = batch, !.fields = fields,
                          !.prior = prior]
  /\ UNCHANGED listing

Finish(s, op, r, id, batch, fields) == FinishAfter(s, op, r, id, batch, fields, "none")

Create(s, batch) ==
  /\ Ready(s)
  /\ \E keys \in FreshKeys(FirstWithId(batch) - 1) :
       Finish(s, "create", create(store, pending[s], batch, keys), NullV, batch, <<>>)

UpdateOneById(s, id, fields) ==
  /\ Ready(s)
  /\ Finish(s, "update_one_by_id", update_one_by_id(store, pending[s], id, fields),
            id, <<>>, fields)

Update(s, id, update_data) ==
  /\ Ready(s)
  /\ Finish(s, "update", update(store, pending[s], id, update_data), id, <<>>, update_data)

\* the same delete may be called a second time in a row, the first outcome still in
\* the caller's hand
Delete(s, id) ==
  \/ /\ Ready(s)
     /\ Finish(s, "delete", delete(store, pending[s], id), id, <<>>, <<>>)
  \/ /\ ret.op = "delete" /\ ret.sess = s /\ ret.id = id /\ ret.prior = "none"
     /\ ~(listing.active /\ listing.sess = s)
     /\ FinishAfter(s, "delete", delete(store, pending[s], id), id, <<>>, <<>>,
                    IF ret.found THEN "true" ELSE "false")

GetById(s, id) ==
  /\ Ready(s)
  /\ Finish(s, "get_by_id", get_by_id(store, pending[s], id), id, <<>>, <<>>)

GetOne(s, filters) ==
  /\ Ready(s)
  /\ \E pick \in GetOnePicks(store, filters) :
       Finish(s, "get_one", get_one(store, pending[s], filters, pick), NullV, <<>>, filters)

ServiceCreate(s, objs) ==
  /\ Ready(s)
  /\ Finish(s, "Service_create", Service_create(store, pending[s], objs, <<>>),
            NullV, [i \in 1..Len(objs) |-> convert_single_to_sqlalchemy(objs[i])], <<>>)

ServiceCreateOne(s, obj) ==
  /\ Ready(s)
  /\ \E keys \in FreshKeys(1) :
       Finish(s, "Service_create_one", Service_create_one(store, pending[s], obj, keys),
              NullV, <<convert_single_to_sqlalchemy(obj)>>, <<>>)

ServiceUpdateById(s, id, fields) ==
  /\ Ready(s)
  /\ Finish(s, "Service_update_by_id", Service_update_by_id(store, pending[s], id, fields),
            id, <<>>, fields)

ServiceDeleteById(s, id) ==
  /\ Ready(s)
  /\ Finish(s, "Service_delete_by_id", Service_delete_by_id(store, pending[s], id),
            id, <<>>, <<>>)

ServiceGetById(s, id) ==
  /\ Ready(s)
  /\ Finish(s, "Service_get_by_id", Service_get_by_id(store, pending[s], id),
            id, <<>>, <<>>)

ServiceGetOne(s, filters) ==
  /\ Ready(s)
  /\ \E pick \in GetOnePicks(store, filters) :
       Finish(s, "Service_get_one", Service_get_one(store, pending[s], filters, pick),
              NullV, <<>>, filters)

UpdateCategory(s, id, fields) ==
  /\ Ready(s)
  /\ Finish(s, "update_category", update_category(store, pending[s], id, fields),
            id, <<>>, fields)

RouteGetCategory(s, id) ==
  /\ Ready(s)
  /\ Finish(s, "Route_get_category", Route_get_category(store, pending[s], id),
            id, <<>>, <<>>)

RouteDeleteCategory(s, id) ==
  /\ Ready(s)
  /\ Finish(s, "Route_delete_category", Route_delete_category(store, pending[s], id),
            id, <<>>, <<>>)

\* get_db: the request ends and its session is closed; what it had added and not
\* committed is dropped
CloseSession(s) ==
  /\ Ready(s)
  /\ pending[s] # <<>>
  /\ pending' = [pending EXCEPT ![s] = <<>>]
  /\ UNCHANGED <<store, listing, ret>>

\* the caller takes the outcome of the last call
Return ==
  /\ ret.op # "none"
  /\ ret' = NoRet
  /\ UNCHANGED <<store, pending, listing>>


\* the caller's filters mapping after list: "if not filters: filters = {}" rebinds an
\* empty mapping, any other mapping receives the soft-delete entry in place
CallerFiltersAfter(p) ==
  IF p.filters = <<>> THEN <<>> ELSE SoftDeleteFilters(p.filters, p.include_deleted)

\* the store refuses a negative OFFSET or LIMIT
PagingAccepted(p) == p.skip >= 0 /\ p.limit >= 0

ListRet(op, s, p, total, data) ==
  [NoRet EXCEPT !.op = op, !.sess = s, !.p = p, !.total = total, !.data = data,
                !.filters_after = CallerFiltersAfter(p)]

\* BaseRepository.list when no other request commits between its two queries
List(s, p) ==
  /\ Ready(s)
  /\ PagingAccepted(p)
  /\ \E data \in FetchQuery(store, SoftDeleteFilters(p.filters, p.include_deleted),
                            p.sort_by, p.skip, p.limit) :
       ret' = ListRet("list", s, p,
                      CountQuery(store, SoftDeleteFilters(p.filters, p.include_deleted)),
                      data)
  /\ UNCHANGED <<store, pending, listing>>

\* BaseRepository.list up to and including total_count = query.count()
ListCount(s, p) ==
  /\ Ready(s)
  /\ ~listing.active
  /\ PagingAccepted(p)
  /\ listing' = [active  |-> TRUE, sess |-> s, p |-> p,
                 filters |-> SoftDeleteFilters(p.filters, p.include_deleted),
                 total   |-> CountQuery(store,
                                        SoftDeleteFilters(p.filters, p.include_deleted))]
  /\ UNCHANGED <<store, pending, ret>>

\* BaseRepository.list from query.offset(skip).limit(limit).all() to its return
ListFetch ==
  /\ listing.active
  /\ ret.op = "none"
  /\ \E data \in FetchQuery(store, listing.filters, listing.p.sort_by, listing.p.skip,
                            listing.p.limit) :
       ret' = ListRet("list", listing.sess, listing.p, listing.total, data)
  /\ listing' = NoListing
  /\ UNCHANGED <<store, pending>>

ServiceSorts == {<<>>, <<[field |-> "name", order |-> "desc"]>>}

\* BaseService.list
ServiceList(s, page, limit, filters, sort_by, include_deleted) ==
  /\ Ready(s)
  /\ LET p == ServiceListParams(page, limit, filters, sort_by, include_deleted) IN
     IF PagingAccepted(p)
       THEN \E data \in FetchQuery(store, SoftDeleteFilters(p.filters, p.include_deleted),
                                   p.sort_by, p.skip, p.limit) :
              ret' = [ListRet("Service_list", s, p,
                              CountQuery(store,
                                         SoftDeleteFilters(p.filters, p.include_deleted)),
                              data)
                        EXCEPT !.page = page, !.page_limit = limit, !.fields = filters]
       ELSE ret' = [NoRet EXCEPT !.op = "Service_list", !.sess = s, !.status = "http500",
                                 !.p = p, !.page = page, !.page_limit = limit,
                                 !.fields = filters]
  /\ UNCHANGED <<store, pending, listing>>

(***************************************************************************)
(* Specifications.                                                         *)
(*   Spec     : mutations and lookups, one call after another, on either   *)
(*              session                                                    *)
(*   SpecList : list calls of a reading request on the store a writing     *)
(*              request builds with create, update and delete              *)
(*   SpecConc : a list call interleaved with the commits of other requests *)
(*   SpecQuery: list calls that exercise the filter and sort interpreters  *)
(***************************************************************************)
Next ==
  \/ \E s \in Sessions, batch \in Batches : Create(s, batch)
  \/ \E s \in Sessions, id \in TargetIds, fields \in UpdateInputs :
       UpdateOneById(s, id, fields)
  \/ \E s \in Sessions, id \in TargetIds, update_data \in UpdateInputs :
       Update(s, id, update_data)
  \/ \E s \in Sessions, id \in TargetIds : Delete(s, id)
  \/ \E s \in Sessions, id \in TargetIds : GetById(s, id)
  \/ \E s \in Sessions, filters \in GetOneInputs : GetOne(s, filters)
  \/ \E s \in Sessions, objs \in [1..MaxBatch -> CreateRequests] : ServiceCreate(s, objs)
  \/ \E s \in Sessions, obj \in CreateRequests : ServiceCreateOne(s, obj)
  \/ \E s \in Sessions, id \in TargetIds, fields \in UpdateRequests :
       ServiceUpdateById(s, id, fields)
  \/ \E s \in Sessions, id \in TargetIds : ServiceDeleteById(s, id)
  \/ \E s \in Sessions, id \in TargetIds : ServiceGetById(s, id)
  \/ \E s \in Sessions, filters \in GetOneInputs : ServiceGetOne(s, filters)
  \/ \E s \in Sessions, id \in TargetIds, fields \in UpdateRequests :
       UpdateCategory(s, id, fields)
  \/ \E s \in Sessions, id \in TargetIds : RouteGetCategory(s, id)
  \/ \E s \in Sessions, id \in TargetIds : RouteDeleteCategory(s, id)
  \/ \E s \in Sessions : CloseSession(s)
  \/ Return

Spec == Init /\ [][Next]_vars

\* the request that lists, and the request that writes
Reader == "s1"
Writer == "s2"

\* batches in which no instance carries an identifier
CleanBatches == {batch \in Batches : FirstWithId(batch) > Len(batch)}

NextList ==
  \/ \E batch \in CleanBatches : Create(Writer, batch)
  \/ \E id \in TargetIds, fields \in UpdateInputs : UpdateOneById(Writer, id, fields)
  \/ \E id \in TargetIds : Delete(Writer, id)
  \/ \E p \in ListInputs : List(Reader, p)
  \/ \E page \in PageInputs, limit \in LimitInputs, filters \in ServiceFilters,
        sort_by \in ServiceSorts, d \in BOOLEAN :
       ServiceList(Reader, page, limit, filters, sort_by, d)
  \/ Return

SpecList == Init /\ [][NextList]_vars

ConcListInputs ==
  {ListParams(f, <<>>, 0, l, d) :
     f \in {<<>>, <<Entry("name", Scalar(StrV(Bar))), Entry("bogus", Scalar(StrV(Foo)))>>},
     l \in 0..MaxLimit, d \in BOOLEAN}

NextConc ==
  \/ \E p \in ConcListInputs : ListCount(Reader, p)
  \/ ListFetch
  \/ \E batch \in CleanBatches : Create(Writer, batch)
  \/ \E id \in TargetIds, fields \in UpdateInputs : UpdateOneById(Writer, id, fields)
  \/ \E id \in TargetIds : Delete(Writer, id)
  \/ Return

SpecConc == Init /\ [][NextConc]_vars

\* filters mappings with entries the interpreter has to skip: an unresolved field, an
\* unrecognized operator, a between whose value is not a pair; and entries it applies
QueryFilters ==
  {<<>>,
   <<Entry("name", Scalar(StrV(Bar))), Entry("bogus", Scalar(StrV(Foo)))>>,
   <<Entry("name", Dict(<<Item("regex", StrV(Foo))>>)),
     Entry("description", Scalar(StrV(Desc)))>>,
   <<Entry("name", Dict(<<Item("between", ListV(<<StrV(Bar)>>)),
                          Item("like", StrV(<<"%", "o", "o", "%">>))>>))>>,
   <<Entry("description", Dict(<<Item("between", StrV(Desc))>>)),
     Entry("name", Dict(<<Item("between", ListV(<<StrV(Desc), StrV(Foo)>>))>>))>>,
   <<Entry("bogus", Dict(<<Item("eq", StrV(Foo))>>)),
     Entry("name", Dict(<<Item("gte", StrV(Bar)), Item("lt", StrV(Foo))>>)),
     Entry("is_deleted", Scalar(BoolV(FALSE)))>>}

\* sort lists: several keys, a spec without order, an unresolved field, an order
\* that is neither asc nor desc
QuerySorts ==
  {<<>>,
   <<SortSpec("description", TRUE, "asc"), SortSpec("name", TRUE, "desc")>>,
   <<SortSpec("name", FALSE, "")>>,
   <<SortSpec("bogus", TRUE, "asc"), SortSpec("is_deleted", TRUE, "up"),
     SortSpec("name", TRUE, "desc"), SortSpec("description", FALSE, "")>>}

\* list calls whose page holds every selected row
QueryInputs ==
  {ListParams(f, o, 0, NumKeys, d) : f \in QueryFilters, o \in QuerySorts, d \in BOOLEAN}

NextQuery ==
  \/ \E batch \in CleanBatches : Create(Writer, batch)
  \/ \E id \in TargetIds, fields \in UpdateInputs : UpdateOneById(Writer, id, fields)
  \/ \E id \in TargetIds : Delete(Writer, id)
  \/ \E p \in QueryInputs : List(Reader, p)
  \/ Return

SpecQuery == Init /\ [][NextQuery]_vars

(***************************************************************************)
(* Properties.                                                             *)
(***************************************************************************)
\* a call has just returned: the step that produced the outcome in ret'
CallStep == ret.op = "none" /\ ret'.op # "none"

ListOps == {"list", "Service_list"}

\* C1: a list call with include_deleted = false whose filters do not mention
\* is_deleted returns no record whose is_deleted flag is true.
C1_NoDeletedListed ==
  (/\ ret.op \in ListOps /\ ret.status = "ok"
   /\ ~ret.p.include_deleted
   /\ ~HasKey(ret.p.filters, "is_deleted"))
  => \A i \in 1..Len(ret.data) : ret.data[i].is_deleted # BoolV(TRUE)

\* the store holds a soft-deleted row next to a live one, and such a list call
\* returned the live one only
C1_Witness ==
  /\ ret.op = "list" /\ ret.status = "ok"
  /\ ~ret.p.include_deleted
  /\ ret.p.filters = <<>>
  /\ \E r \in store : r.is_deleted = BoolV(TRUE)
  /\ Len(ret.data) = 1
  /\ ret.total = 1

\* C2: when create raises because an instance of the batch already carries an
\* identifier, no instance of that batch is a row after the failure, and none becomes
\* a row by a later commit on the same session.  (A session holds uncommitted
\* instances only after such a failure.)
C2_BatchAllOrNothing ==
  [][/\ \A s \in Sessions : \A i \in DOMAIN pending'[s] :
          pending'[s][i].id \notin StoreIds(store')
     /\ \A s \in Sessions : \A i \in DOMAIN pending[s] :
          pending[s][i].id \notin StoreIds(store')]_vars


\* the operator a tagged expression names
OpNameOf(v) ==
  CASE v = StrV(<<"e", "q">>) -> "eq"
    [] v = StrV(<<"i", "n">>) -> "in"
    [] v = StrV(Between)      -> "between"
    [] OTHER                  -> "unknown"

\* the predicate a field of a typed filters object stands for
TaggedHolds(fv, row) ==
  fv.kind # "none" => OpHolds(OpNameOf(fv.op), row[fv.field], fv.value)

\* the stored, non-deleted rows that satisfy every tagged expression of the object
TaggedMatching(st, filters) ==
  {r \in st : /\ r.is_deleted = BoolV(FALSE)
              /\ \A i \in 1..Len(filters) : TaggedHolds(filters[i], r)}

\* C3: a list call through the generic service with a tagged filter expression
\* returns only stored, non-deleted records whose field satisfies the operator's
\* predicate, all of them when the page is large enough, and total_count is their
\* number.
C3_TaggedFilterApplied ==
  (ret.op = "Service_list" /\ ret.status = "ok" /\ ~ret.p.include_deleted)
  => /\ SeqRange(ret.data) \subseteq TaggedMatching(store, ret.fields)
     /\ ret.total = Cardinality(TaggedMatching(store, ret.fields))
     /\ (ret.p.skip = 0 /\ ret.p.limit >= ret.total
           => SeqRange(ret.data) = TaggedMatching(store, ret.fields))

\* one entry of a filters mapping, read as the predicate it denotes
EntrySatisfied(row, e) ==
  \/ ~HasAttr(e.field)
  \/ /\ e.cond.kind = "scalar"
     /\ ColEq(row[e.field], e.cond.val)
  \/ /\ e.cond.kind = "dict"
     /\ \A i \in 1..Len(e.cond.items) :
          OpRecognized(e.cond.items[i].op, e.cond.items[i].val)
            => OpHolds(e.cond.items[i].op, row[e.field], e.cond.items[i].val)

\* the rows that satisfy the effective filters of a list call: the caller's, and
\* is_deleted = false when the call neither includes deleted rows nor filters on the flag
EffectiveMatching(st, p) ==
  {r \in st : /\ \A i \in 1..Len(p.filters) : EntrySatisfied(r, p.filters[i])
              /\ ((~p.include_deleted /\ ~HasKey(p.filters, "is_deleted"))
                    => r.is_deleted = BoolV(FALSE))}

\* C4: total_count is the number of stored records that satisfy the effective
\* filters, whatever skip, limit and sort are.
C4_TotalCount ==
  (ret.op = "list" /\ ret.status = "ok")
  => ret.total = Cardinality(EffectiveMatching(store, ret.p))

\* a page that holds fewer rows than total_count: a filter, a sort, a skip and a
\* limit are all at work
C4_Witness ==
  /\ ret.op = "list" /\ ret.status = "ok"
  /\ ret.p.filters # <<>>
  /\ ret.p.sort_by # <<>>
  /\ ret.p.skip = 1 /\ ret.p.limit = 1
  /\ ret.total = 2
  /\ Len(ret.data) = 1
  /\ Cardinality(store) = 2

\* C5: every paged result satisfies len(data) <= limit and total_count >= len(data),
\* also when other requests commit between the count query and the fetch query.
C5_PagedResultBounds ==
  (ret.op = "list" /\ ret.status = "ok")
  => /\ Len(ret.data) <= ret.p.limit
     /\ ret.total >= Len(ret.data)


\* C6: delete(id) returns true exactly when id was present; after it get_by_id(id)
\* finds nothing and no other record is removed; called a second time in a row it
\* returns false (true then false when id was present, false then false when absent).
C6_DeleteTwice ==
  [][(ret'.op = "delete" /\ ret' # ret)
       => /\ ret'.status = "ok"
          /\ ret'.found = (ret'.id \in StoreIds(store))
          /\ db_get(store', ret'.id) = NullRow
          /\ \A r \in store : r.id # ret'.id => r \in store'
          /\ (ret'.prior # "none" => ~ret'.found)
          /\ (ret'.prior = "true" <=> (ret.op = "delete" /\ ret.found))]_vars

\* the second of two deletes in a row returned false after the first returned true,
\* and another record is still stored
C6_Witness ==
  /\ ret.op = "delete" /\ ret.prior = "true" /\ ~ret.found
  /\ store # {}

\* the outcome in ret' and the new store are those of repository outcome r
SameAs(r) ==
  /\ store' = r.store
  /\ pending'[ret'.sess] = r.pend
  /\ ret'.status = r.status
  /\ ret'.found = r.found
  /\ ret'.row = r.row
  /\ ret'.ids = r.ids

\* C7: each generic-service operation has the result and the store effect of the
\* repository operation it wraps, and signals an internal failure only when that
\* operation fails.
C7_ServiceAsRepository ==
  [][CallStep =>
       /\ (ret'.op = "Service_create" =>
             \E keys \in FreshKeys(Len(ret'.batch)) :
               SameAs(create(store, pending[ret'.sess], ret'.batch, keys)))
       /\ (ret'.op = "Service_create_one" =>
             \E keys \in FreshKeys(1) :
               SameAs(create(store, pending[ret'.sess], ret'.batch, keys)))
       /\ (ret'.op = "Service_update_by_id" =>
             SameAs(update_one_by_id(store, pending[ret'.sess], ret'.id, ret'.fields)))
       /\ (ret'.op = "Service_delete_by_id" =>
             SameAs(delete(store, pending[ret'.sess], ret'.id)))
       /\ (ret'.op = "Service_get_by_id" =>
             SameAs(get_by_id(store, pending[ret'.sess], ret'.id)))
       /\ (ret'.op = "Service_get_one" =>
             \E pick \in GetOnePicks(store, ret'.fields) :
               SameAs(get_one(store, pending[ret'.sess], ret'.fields, pick)))]_vars

\* C8: a successful create returns one fresh identifier per instance, in input
\* order, and get_by_id of the i-th identifier yields a record equal to the i-th
\* input instance in every field the caller set (the identifier is assigned, and a
\* flag left unset is stored as false).
C8_CreateRoundTrip ==
  [][(CallStep /\ ret'.op = "create" /\ ret'.status = "ok")
       => /\ Len(ret'.ids) = Len(ret'.batch)
          /\ \A i, j \in 1..Len(ret'.ids) : i # j => ret'.ids[i] # ret'.ids[j]
          /\ \A i \in 1..Len(ret'.ids) :
               /\ ret'.ids[i].t = "str" /\ ret'.ids[i].s # <<>>
               /\ ret'.ids[i] \notin StoreIds(store)
               /\ db_get(store', ret'.ids[i]) # NullRow
               /\ db_get(store', ret'.ids[i]).name = ret'.batch[i].name
               /\ db_get(store', ret'.ids[i]).description = ret'.batch[i].description
               /\ db_get(store', ret'.ids[i]).is_deleted =
                    (IF IsNull(ret'.batch[i].is_deleted) THEN BoolV(FALSE)
                     ELSE ret'.batch[i].is_deleted)]_vars

\* a batch of two different instances was created
C8_Witness ==
  /\ ret.op = "create" /\ ret.status = "ok"
  /\ Len(ret.batch) = 2 /\ ret.batch[1] # ret.batch[2]
  /\ Len(ret.ids) = 2
  /\ db_get(store, ret.ids[2]).name = ret.batch[2].name

Max(a, b) == IF a > b THEN a ELSE b
Min(a, b) == IF a < b THEN a ELSE b

\* C9: the limit handed to the repository is min(max(1, limit), 1000), the skip is
\* (max(1, page) - 1) times that limit, and the skip is never negative.
C9_ClampedPaging ==
  ret.op = "Service_list"
  => /\ ret.p.limit = Min(Max(1, ret.page_limit), 1000)
     /\ ret.p.skip = (Max(1, ret.page) - 1) * Min(Max(1, ret.page_limit), 1000)
     /\ ret.p.skip >= 0

\* C10: update-by-identifier on an identifier that is not in the store returns absent,
\* raises nothing and leaves the store unchanged, for the repository operation and
\* for the resource-level update.
C10_UpdateMissing ==
  [][(/\ CallStep
      /\ ret'.op \in {"update_one_by_id", "update_category"}
      /\ ret'.id \notin StoreIds(store))
       => /\ ret'.status = "ok"
          /\ ret'.row = NullRow
          /\ store' = store]_vars

\* C11: a get or delete request at the transport boundary that targets an identifier
\* absent from the store ends with "not found" (HTTP 404), not with an internal
\* failure (HTTP 500); on a present identifier, with the store healthy, it succeeds.
C11_AbsentIsNotFound ==
  [][(CallStep /\ ret'.op \in {"Route_get_category", "Route_delete_category"})
       => /\ (ret'.id \notin StoreIds(store) => ret'.status = "http404")
          /\ (ret'.id \in StoreIds(store) => ret'.status = "ok")]_vars

\* C12: the entity has an is_deleted attribute, so delete(id) on a present record
\* does not physically remove it: the row still exists in the store afterwards.
C12_DeleteKeepsRow ==
  [][(/\ ret'.op = "delete" /\ ret' # ret
      /\ HasAttr("is_deleted")
      /\ ret'.id \in StoreIds(store))
       => ret'.id \in StoreIds(store')]_vars

\* C12 as amended: delete(id) on a present record physically removes the row although
\* the entity has an is_deleted attribute; a record is kept with its flag set only
\* when the caller sets is_deleted through update.
C12_DeleteRemovesRow ==
  [][/\ (/\ ret'.op = "delete" /\ ret' # ret
         /\ HasAttr("is_deleted")
         /\ ret'.id \in StoreIds(store))
          => ret'.found /\ ret'.id \notin StoreIds(store')
     /\ (/\ CallStep /\ ret'.op = "update_one_by_id"
         /\ ret'.id \in StoreIds(store)
         /\ \E i \in 1..Len(ret'.fields) : ret'.fields[i] = Item("is_deleted", BoolV(TRUE)))
          => db_get(store', ret'.id).is_deleted = BoolV(TRUE)]_vars

\* a delete found its record and removed it, while a record flagged through update
\* is still stored
C12_Witness ==
  /\ ret.op = "delete" /\ ret.found
  /\ ret.id \notin StoreIds(store)
  /\ \E r \in store : r.is_deleted = BoolV(TRUE)


\* the items of a dict condition that name a recognized operator
LiveItems(items) ==
  SelectSeq(items, LAMBDA it : OpRecognized(it.op, it.val))

\* a filters mapping without the entries and items the interpreter has to skip
Stripped(filters) ==
  LET Resolved == SelectSeq(filters, LAMBDA e : HasAttr(e.field))
  IN  [i \in 1..Len(Resolved) |->
         IF Resolved[i].cond.kind = "dict"
           THEN Entry(Resolved[i].field, Dict(LiveItems(Resolved[i].cond.items)))
           ELSE Resolved[i]]

\* every iteration order of a mapping
IterationOrders(q) ==
  {[i \in 1..Len(q) |-> q[f[i]]] :
     f \in {g \in [1..Len(q) -> 1..Len(q)] : \A i, j \in 1..Len(q) : i # j => g[i] # g[j]}}

\* C13: the filter interpreter does not raise; entries with an unresolved field, an
\* unrecognized operator or a between without a pair leave the query as if they were
\* absent; the remaining entries are AND-combined, so that the rows selected are the
\* same for every iteration order of the mapping.
C13_FiltersDegrade ==
  (ret.op = "list" /\ ret.p.skip = 0 /\ ret.p.limit >= Cardinality(store))
  => LET E == SoftDeleteFilters(ret.p.filters, ret.p.include_deleted) IN
     /\ ret.status = "ok"
     /\ SeqRange(ret.data) = Matching(store, Stripped(E))
     /\ SeqRange(ret.data) = EffectiveMatching(store, ret.p)
     /\ SeqRange(ret.data) = {r \in store : \A i \in 1..Len(E) : r \in Matching(store, <<E[i]>>)}
     /\ \A q \in IterationOrders(E) : Matching(store, q) = SeqRange(ret.data)
     /\ ret.total = Cardinality(Matching(store, Stripped(E)))

\* a list whose mapping holds an unresolved field next to an entry that selects one
\* of two stored rows
C13_Witness ==
  /\ ret.op = "list" /\ ret.status = "ok"
  /\ \E i \in 1..Len(ret.p.filters) : ~HasAttr(ret.p.filters[i].field)
  /\ \E i \in 1..Len(ret.p.filters) :
       /\ ret.p.filters[i].cond.kind = "dict"
       /\ Len(LiveItems(ret.p.filters[i].cond.items)) = 2
  /\ Cardinality(store) = 2
  /\ Len(ret.data) = 1

\* the sort keys of a sort list: the specs with a field the entity has and an order
\* of asc or desc, ascending when no order is given
ValidKeys(sort_by) ==
  SelectSeq(sort_by,
            LAMBDA sp : /\ sp.field # "" /\ HasAttr(sp.field)
                        /\ (sp.has_order => sp.order \in {"asc", "desc"}))

\* x is strictly before y under one key
KeyBefore(sp, x, y) ==
  IF sp.has_order /\ sp.order = "desc"
    THEN AscBefore(y[sp.field], x[sp.field])
    ELSE AscBefore(x[sp.field], y[sp.field])

\* x is strictly before y under the multi-key order: the first key that separates
\* them puts x first
KeysBefore(keys, x, y) ==
  \E k \in 1..Len(keys) :
    /\ KeyBefore(keys[k], x, y)
    /\ \A h \in 1..(k - 1) : ~KeyBefore(keys[h], x, y) /\ ~KeyBefore(keys[h], y, x)

\* C15: the result is ordered as a multi-key sort whose keys are the valid specs in
\* sequence order, the first having the highest priority; a spec with an unresolved
\* field or an order outside {asc, desc} contributes no key; a spec without order
\* sorts ascending.
C15_MultiKeySort ==
  (ret.op = "list" /\ ret.status = "ok")
  => \A i, j \in 1..Len(ret.data) :
       i < j => ~KeysBefore(ValidKeys(ret.p.sort_by), ret.data[j], ret.data[i])

\* two rows tie on the first key and the second key, descending, decides
C15_Witness ==
  /\ ret.op = "list" /\ ret.status = "ok"
  /\ Len(ValidKeys(ret.p.sort_by)) = 2
  /\ ValidKeys(ret.p.sort_by)[1].field = "description"
  /\ Len(ret.data) = 2
  /\ ret.data[1].description = ret.data[2].description
  /\ ValLt(ret.data[2].name, ret.data[1].name)

\* the value a fields mapping supplies for column c
Supplied(fields, c) == fields[CHOOSE i \in 1..Len(fields) : fields[i].op = c].val

C16_ListReadOnly ==
  [][(CallStep /\ ret'.op = "list")
       => /\ store' = store
          /\ ret'.filters_after = ret'.p.filters
          /\ Matching(store', SoftDeleteFilters(ret'.filters_after, TRUE))
               = Matching(store', SoftDeleteFilters(ret'.p.filters, TRUE))]_vars

====
